---------------------------- MODULE Spec2Model ----------------------------
(***************************************************************************)
(* Model of the pulumi-snowflake dynamic provider engines:                 *)
(*   - Provider            (pulumi_snowflake/provider/provider.py)         *)
(*   - BaseDynamicProvider (pulumi_snowflake/baseprovider/...)             *)
(*   - FileFormatProvider  (only its delete tests are available)           *)
(*                                                                         *)
(* Python values are records [t, v]: None is [t |-> "none"], a str is      *)
(* [t |-> "str", v |-> <<characters>>].  A dict is a function whose DOMAIN *)
(* is the set of keys present.  SQL text is a TLA+ string.                 *)
(***************************************************************************)
EXTENDS Naturals, Sequences, FiniteSets, TLC

VARIABLES
    provider_params,   \* BaseDynamicProvider.provider_params (fixed at construction)
    op,                \* the handler that ran last ("init" before any call)
    args,              \* its arguments: [id, inputs, olds]
    result,            \* what it returned or raised
    executed,          \* the cursor.execute calls it made, in order
    getCalls,          \* the connection_provider.get() calls it made
    openConnections,   \* Connections obtained so far and not closed
    openCursors        \* cursors obtained so far and not closed

vars == <<provider_params, op, args, result, executed, getCalls,
          openConnections, openCursors>>

-----------------------------------------------------------------------------
(* Bounds of the model *)

\* calls stop being issued once this many Connections have been leaked
MaxOpen == 1

-----------------------------------------------------------------------------
(* Python values *)

None == [t |-> "none", v |-> <<>>]
Str(s) == [t |-> "str", v |-> s]
Absent == [t |-> "absent", v |-> <<>>]

\* dict.get(key): None when the key is absent
Get(d, k) == IF k \in DOMAIN d THEN d[k] ELSE None

\* truthiness of a value: None and the empty string are falsy
Truthy(x) == x.t = "str" /\ x.v # <<>>

\* the dict holding the entries of f that are not Absent
Dict(f) == [k \in {j \in DOMAIN f : f[j] # Absent} |-> f[k]]

EmptyDict == Dict([k \in {} |-> Absent])

RECURSIVE Flat(_)
\* the text of a character sequence
Flat(s) == IF s = <<>> THEN "" ELSE Head(s) \o Flat(Tail(s))

\* str(x) as an f-string renders it
Format(x) == IF x.t = "none" THEN "None" ELSE Flat(x.v)

\* the characters of str(x)
FormatChars(x) == IF x.t = "none" THEN <<"N", "o", "n", "e">> ELSE x.v

-----------------------------------------------------------------------------
(* Validation *)

Letters == {"a", "b", "c", "d", "e", "f", "g", "h", "i", "j", "k", "l", "m",
            "n", "o", "p", "q", "r", "s", "t", "u", "v", "w", "x", "y", "z",
            "A", "B", "C", "D", "E", "F", "G", "H", "I", "J", "K", "L", "M",
            "N", "O", "P", "Q", "R", "S", "T", "U", "V", "W", "X", "Y", "Z"}
Digits == {"0", "1", "2", "3", "4", "5", "6", "7", "8", "9"}

\* the identifier grammar: alphanumeric plus underscore, not purely numeric,
\* bounded length
IsIdentifier(s) ==
    /\ Len(s) > 0
    /\ Len(s) <= 255
    /\ \A i \in 1..Len(s) : s[i] \in Letters \cup Digits \cup {"_"}
    /\ \E i \in 1..Len(s) : s[i] \notin Digits

\* Validation.validate_identifier(x) returns x or raises.  Callers hand it
\* None for an unresolved database or schema, which is not validated.
validate_identifier_ok(x) == x.t = "none" \/ (x.t = "str" /\ IsIdentifier(x.v))

-----------------------------------------------------------------------------
(* Results and the connection capability *)

NoResult ==
    [status |-> "none", error |-> "", id |-> None, outs |-> EmptyDict,
     changes |-> FALSE, replaces |-> <<>>, delete_before_replace |-> FALSE,
     database |-> None, schema |-> None, value |-> None]

\* the handler raised an exception
Raised(e) == [NoResult EXCEPT !.status = "raised", !.error = e]

NoArgs == [id |-> None, inputs |-> EmptyDict, olds |-> EmptyDict]

\* what one handler call did to the connection capability
NoIO == [getCalls |-> 0, executed |-> <<>>, connections |-> 0, cursors |-> 0,
         raised |-> FALSE]

\* one cursor.execute call: the text, and the bindings tuple when one is passed
ExecuteCall(sql, bindings, withBindings) ==
    [sql |-> sql, bindings |-> bindings, withBindings |-> withBindings]

RECURSIVE Join(_, _)
\* sep.join(strings)
Join(strings, sep) ==
    IF strings = <<>> THEN ""
    ELSE IF Len(strings) = 1 THEN strings[1]
    ELSE strings[1] \o sep \o Join(Tail(strings), sep)

RECURSIVE Flatten(_)
\* [item for sublist in lists for item in sublist]
Flatten(lists) ==
    IF lists = <<>> THEN <<>> ELSE Head(lists) \o Flatten(Tail(lists))

-----------------------------------------------------------------------------
(* Attribute descriptors (BaseAttribute and its subclasses) *)

\* the descriptor list of the engine instance: a required literal attribute,
\* an optional attribute passed as a bound parameter, an optional literal one
attributes ==
    << [name |-> "type", sql |-> "TYPE", required |-> TRUE, bound |-> FALSE],
       [name |-> "comment", sql |-> "COMMENT", required |-> FALSE, bound |-> TRUE],
       [name |-> "compression", sql |-> "COMPRESSION", required |-> FALSE,
        bound |-> FALSE] >>

sql_name == "FILE FORMAT"

is_required(a) == a.required

\* BaseAttribute.generate_sql: the clause of this attribute
generate_sql(a, value) ==
    IF a.bound THEN a.sql \o " = %s" ELSE a.sql \o " = " \o Format(value)

\* BaseAttribute.generate_bindings: [present, values]; present = FALSE is None
generate_bindings(a, value) ==
    IF a.bound THEN [present |-> TRUE, values |-> <<value>>]
    ELSE [present |-> FALSE, values |-> <<>>]

\* RandomId.generate(7): seven identifier characters
RandomIds == { <<"a", "b", "c", "d", "e", "f", "g">>,
               <<"0", "1", "2", "3", "4", "5", "6">> }

\* the ids RandomId.generate may return in a create call on inputs: it is
\* called only when inputs hold no name
RandomIdsFor(inputs) ==
    IF Get(inputs, "name") = None THEN RandomIds ELSE {<<>>}

-----------------------------------------------------------------------------
(* Provider (provider/provider.py) *)

\* Provider.get_full_object_name: the base class returns the name as it is
Provider_get_full_object_name(validated_name, inputs) == validated_name

\* Provider.generate_outputs: the base class returns outs as they are
Provider_generate_outputs(name, inputs, outs) == outs

\* the loop with no attribute treated as required
Provider_check_required_loop_nothing_required(inputs, i) == "ok"

RECURSIVE Provider_check_required_loop(_, _)
\* the loop over self.attributes: "ok", or the exception the first failing
\* attribute raises (inputs[attribute.name] is a KeyError on an absent key)
Provider_check_required_loop(inputs, i) ==
    IF i > Len(attributes) THEN "ok"
    ELSE IF is_required(attributes[i]) /\ attributes[i].name \notin DOMAIN inputs
         THEN "KeyError"
    ELSE IF is_required(attributes[i]) /\ inputs[attributes[i].name] = None
         THEN "RequiredAttributeMissing"
    ELSE Provider_check_required_loop(inputs, i + 1)

\* Provider._check_required_attributes without its name/resource_name check
Provider_check_required_attributes_no_name_check(inputs) ==
    Provider_check_required_loop(inputs, 1)

Provider_check_required_attributes(inputs) ==
    IF Provider_check_required_loop(inputs, 1) # "ok"
    THEN Provider_check_required_loop(inputs, 1)
    ELSE IF Get(inputs, "name") = None /\ Get(inputs, "resource_name") = None
    THEN "NameMissing"
    ELSE "ok"

\* Provider._get_validated_autogenerated_name: [error, name]
Provider_get_validated_autogenerated_name(inputs, randomId) ==
    LET name == Get(inputs, "name") IN
    IF name = None /\ "resource_name" \notin DOMAIN inputs
    THEN [error |-> "KeyError", name |-> None]
    ELSE LET n == IF name = None
                  THEN Str(FormatChars(inputs["resource_name"]) \o <<"_">> \o randomId)
                  ELSE name
         IN IF validate_identifier_ok(n)
            THEN [error |-> "ok", name |-> n]
            ELSE [error |-> "InvalidIdentifier", name |-> None]

\* every attribute selected, with or without a value
Provider_attributes_unfiltered(inputs) == attributes

\* filter(lambda a: inputs.get(a.name) is not None, self.attributes)
Provider_attributes_with_values(inputs) ==
    SelectSeq(attributes, LAMBDA a : Get(inputs, a.name) # None)

Provider_generate_outputs_from_attributes(inputs) ==
    [k \in {attributes[i].name : i \in 1..Len(attributes)} |-> Get(inputs, k)]

Provider_generate_sql_create_statement(attributesWithValues, validated_name, inputs) ==
    LET qualified_name == Provider_get_full_object_name(validated_name, inputs) IN
    << "CREATE " \o sql_name \o " " \o Format(qualified_name) >>
    \o [i \in 1..Len(attributesWithValues) |->
          generate_sql(attributesWithValues[i], Get(inputs, attributesWithValues[i].name))]

Provider_generate_sql_create_bindings(attributesWithValues, inputs) ==
    LET bindingTuplesList ==
            [i \in 1..Len(attributesWithValues) |->
               generate_bindings(attributesWithValues[i],
                                 Get(inputs, attributesWithValues[i].name))]
        notNone == SelectSeq(bindingTuplesList, LAMBDA t : t.present)
    IN Flatten([i \in 1..Len(notNone) |-> notNone[i].values])

\* Provider._execute_sql: get a Connection and a cursor, execute the joined
\* statement, close the cursor in the finally block; connection.close() comes
\* after the try statement and is skipped when execute raises
Provider_execute_sql(io, statement, bindings, executeRaises) ==
    [getCalls |-> io.getCalls + 1,
     executed |-> Append(io.executed,
                         IF bindings # <<>>
                         THEN ExecuteCall(Join(statement, "\n"), bindings, TRUE)
                         ELSE ExecuteCall(Join(statement, "\n"), <<>>, FALSE)),
     connections |-> IF executeRaises THEN io.connections + 1 ELSE io.connections,
     cursors |-> io.cursors,
     raised |-> executeRaises]

\* Provider.create: [io, result]
Provider_create(inputs, randomId, executeRaises) ==
    LET checked == Provider_check_required_attributes(inputs) IN
    IF checked # "ok" THEN [io |-> NoIO, result |-> Raised(checked)]
    ELSE
    LET validated == Provider_get_validated_autogenerated_name(inputs, randomId) IN
    IF validated.error # "ok" THEN [io |-> NoIO, result |-> Raised(validated.error)]
    ELSE
    LET validated_name == validated.name
        attributes_with_values == Provider_attributes_with_values(inputs)
        sql_statements ==
            Provider_generate_sql_create_statement(attributes_with_values,
                                                   validated_name, inputs)
        sql_bindings ==
            Provider_generate_sql_create_bindings(attributes_with_values, inputs)
        io == Provider_execute_sql(NoIO, sql_statements, sql_bindings, executeRaises)
        provisional_outputs ==
            [k \in {"name"} \cup DOMAIN Provider_generate_outputs_from_attributes(inputs) |->
               IF k \in DOMAIN Provider_generate_outputs_from_attributes(inputs)
               THEN Provider_generate_outputs_from_attributes(inputs)[k]
               ELSE validated_name]
    IN IF io.raised THEN [io |-> io, result |-> Raised("ExecutionError")]
       ELSE [io |-> io,
             result |-> [NoResult EXCEPT
                           !.status = "returned",
                           !.id = validated_name,
                           !.outs = Provider_generate_outputs(validated_name, inputs,
                                                              provisional_outputs)]]

\* Provider.delete without the validation of id
Provider_delete_unvalidated(id, props, executeRaises) ==
    LET io == Provider_execute_sql(NoIO,
                                   << "DROP " \o sql_name \o " " \o Format(id) >>,
                                   <<>>, executeRaises)
    IN IF io.raised THEN [io |-> io, result |-> Raised("ExecutionError")]
       ELSE [io |-> io, result |-> [NoResult EXCEPT !.status = "returned"]]

\* Provider.delete: [io, result]
Provider_delete(id, props, executeRaises) ==
    IF ~validate_identifier_ok(id)
    THEN [io |-> NoIO, result |-> Raised("InvalidIdentifier")]
    ELSE
    LET validated_name == id
        full_name == Provider_get_full_object_name(validated_name, props)
        io == Provider_execute_sql(NoIO,
                                   << "DROP " \o sql_name \o " " \o Format(full_name) >>,
                                   <<>>, executeRaises)
    IN IF io.raised THEN [io |-> io, result |-> Raised("ExecutionError")]
       ELSE [io |-> io, result |-> [NoResult EXCEPT !.status = "returned"]]

-----------------------------------------------------------------------------
(* BaseDynamicProvider (baseprovider/base_dynamic_provider.py) *)

resource_type == "STAGE"

\* a Provider object carrying the provider-level database and schema
Params(database, schema) == [present |-> TRUE, database |-> database, schema |-> schema]

\* provider_params is None
NoParams == [present |-> FALSE, database |-> None, schema |-> None]

\* {**a, **b}: the entries of b override those of a
Merge(a, b) == [k \in DOMAIN a \cup DOMAIN b |-> IF k \in DOMAIN b THEN b[k] ELSE a[k]]

\* _get_database_and_schema with the provider-level values taking precedence
BaseDynamicProvider_get_database_and_schema_provider_first(inputs) ==
    IF Truthy(Get(inputs, "database")) \/ Truthy(Get(inputs, "schema"))
    THEN [database |-> IF provider_params.present /\ Truthy(provider_params.database)
                       THEN provider_params.database
                       ELSE IF Truthy(Get(inputs, "database"))
                       THEN Get(inputs, "database") ELSE None,
          schema |-> IF provider_params.present /\ Truthy(provider_params.schema)
                     THEN provider_params.schema
                     ELSE IF Truthy(Get(inputs, "schema"))
                     THEN Get(inputs, "schema") ELSE None]
    ELSE [database |-> None, schema |-> None]

\* BaseDynamicProvider._get_database_and_schema: [database, schema]
BaseDynamicProvider_get_database_and_schema(inputs) ==
    IF Truthy(Get(inputs, "database")) \/ Truthy(Get(inputs, "schema"))
    THEN LET database0 == IF provider_params.present /\ Truthy(provider_params.database)
                          THEN provider_params.database ELSE None
             schema0 == IF provider_params.present /\ Truthy(provider_params.schema)
                        THEN provider_params.schema ELSE None
         IN [database |-> IF Truthy(Get(inputs, "database"))
                          THEN Get(inputs, "database") ELSE database0,
             schema |-> IF Truthy(Get(inputs, "schema"))
                        THEN Get(inputs, "schema") ELSE schema0]
    ELSE [database |-> None, schema |-> None]

\* _get_full_object_name rejecting a None database or schema
BaseDynamicProvider_get_full_object_name_none_rejected(inputs, name) ==
    IF ~validate_identifier_ok(name)
    THEN [error |-> "InvalidIdentifier", name |-> None]
    ELSE IF Truthy(Get(inputs, "database")) \/ Truthy(Get(inputs, "schema"))
    THEN LET ds == BaseDynamicProvider_get_database_and_schema(inputs)
             database == ds.database
             schema == ds.schema
         IN IF database = None \/ schema = None
               \/ ~validate_identifier_ok(database) \/ ~validate_identifier_ok(schema)
            THEN [error |-> "InvalidIdentifier", name |-> None]
            ELSE [error |-> "ok",
                  name |-> Str(database.v \o <<".">> \o schema.v \o <<".">> \o name.v)]
    ELSE [error |-> "ok", name |-> name]

\* BaseDynamicProvider._get_full_object_name: [error, name]
BaseDynamicProvider_get_full_object_name(inputs, name) ==
    IF ~validate_identifier_ok(name)
    THEN [error |-> "InvalidIdentifier", name |-> None]
    ELSE IF Truthy(Get(inputs, "database")) \/ Truthy(Get(inputs, "schema"))
    THEN LET ds == BaseDynamicProvider_get_database_and_schema(inputs)
             database == ds.database
             schema == ds.schema
         IN IF ~validate_identifier_ok(database) \/ ~validate_identifier_ok(schema)
            THEN [error |-> "InvalidIdentifier", name |-> None]
            ELSE IF database # None /\ schema # None
            THEN [error |-> "ok",
                  name |-> Str(database.v \o <<".">> \o schema.v \o <<".">> \o name.v)]
            ELSE IF database # None /\ schema = None
            THEN [error |-> "ok", name |-> Str(database.v \o <<".", ".">> \o name.v)]
            ELSE [error |-> "ok", name |-> name]
    ELSE [error |-> "ok", name |-> name]

\* BaseDynamicProvider._get_validated_autogenerated_name: [error, name]
BaseDynamicProvider_get_validated_autogenerated_name(inputs, randomId) ==
    LET name == Get(inputs, "name") IN
    IF name = None /\ "resource_name" \notin DOMAIN inputs
    THEN [error |-> "KeyError", name |-> None]
    ELSE LET n == IF name = None
                  THEN Str(FormatChars(inputs["resource_name"]) \o <<"_">> \o randomId)
                  ELSE name
         IN IF validate_identifier_ok(n)
            THEN [error |-> "ok", name |-> n]
            ELSE [error |-> "InvalidIdentifier", name |-> None]

\* the subclass hook generate_sql_create_statement: a template that names
\* the object by its full object name.  [error, sql]
generate_sql_create_statement(validated_name, inputs) ==
    LET full == BaseDynamicProvider_get_full_object_name(inputs, validated_name) IN
    IF full.error # "ok" THEN [error |-> full.error, sql |-> ""]
    ELSE [error |-> "ok", sql |-> "CREATE " \o resource_type \o " " \o Format(full.name)]

\* the subclass hook generate_sql_drop_statement.  [error, sql]
generate_sql_drop_statement(validated_name, inputs) ==
    LET full == BaseDynamicProvider_get_full_object_name(inputs, validated_name) IN
    IF full.error # "ok" THEN [error |-> full.error, sql |-> ""]
    ELSE [error |-> "ok", sql |-> "DROP " \o resource_type \o " " \o Format(full.name)]

\* BaseDynamicProvider._generate_outputs_from_inputs
BaseDynamicProvider_generate_outputs_from_inputs(inputs) ==
    [k \in DOMAIN inputs \ {"name", "resource_name"} |-> inputs[k]]

\* _generate_outputs recording the database as the schema as well
BaseDynamicProvider_generate_outputs_schema_miscopied(name, inputs, outs) ==
    LET ds == BaseDynamicProvider_get_database_and_schema(inputs)
        full == BaseDynamicProvider_get_full_object_name(inputs, name)
    IN IF ds.database # None
       THEN IF full.error # "ok" THEN [error |-> full.error, outs |-> EmptyDict]
            ELSE [error |-> "ok",
                  outs |-> Merge([k \in {"database", "schema", "full_name"} |->
                                    CASE k = "database" -> ds.database
                                      [] k = "schema" -> ds.database
                                      [] OTHER -> full.name],
                                 outs)]
       ELSE [error |-> "ok", outs |-> Merge([k \in {"full_name"} |-> name], outs)]

\* BaseDynamicProvider._generate_outputs: [error, outs]
BaseDynamicProvider_generate_outputs(name, inputs, outs) ==
    LET ds == BaseDynamicProvider_get_database_and_schema(inputs)
        full == BaseDynamicProvider_get_full_object_name(inputs, name)
    IN IF ds.database # None
       THEN IF full.error # "ok" THEN [error |-> full.error, outs |-> EmptyDict]
            ELSE [error |-> "ok",
                  outs |-> Merge([k \in {"database", "schema", "full_name"} |->
                                    CASE k = "database" -> ds.database
                                      [] k = "schema" -> ds.schema
                                      [] OTHER -> full.name],
                                 outs)]
       ELSE [error |-> "ok", outs |-> Merge([k \in {"full_name"} |-> name], outs)]

\* BaseDynamicProvider._execute_sql: as Provider._execute_sql, without bindings
BaseDynamicProvider_execute_sql(io, statement, executeRaises) ==
    [getCalls |-> io.getCalls + 1,
     executed |-> Append(io.executed, ExecuteCall(statement, <<>>, FALSE)),
     connections |-> IF executeRaises THEN io.connections + 1 ELSE io.connections,
     cursors |-> io.cursors,
     raised |-> executeRaises]

\* BaseDynamicProvider.create: [io, result]
BaseDynamicProvider_create(inputs, randomId, executeRaises) ==
    IF Get(inputs, "name") = None /\ Get(inputs, "resource_name") = None
    THEN [io |-> NoIO, result |-> Raised("NameMissing")]
    ELSE
    LET validated == BaseDynamicProvider_get_validated_autogenerated_name(inputs, randomId) IN
    IF validated.error # "ok" THEN [io |-> NoIO, result |-> Raised(validated.error)]
    ELSE
    LET validated_name == validated.name
        sql_statement == generate_sql_create_statement(validated_name, inputs)
    IN
    IF sql_statement.error # "ok"
    THEN [io |-> NoIO, result |-> Raised(sql_statement.error)]
    ELSE
    LET io == BaseDynamicProvider_execute_sql(NoIO, sql_statement.sql, executeRaises)
        provisional_outputs ==
            Merge([k \in {"name"} |-> validated_name],
                  BaseDynamicProvider_generate_outputs_from_inputs(inputs))
        outs == BaseDynamicProvider_generate_outputs(validated_name, inputs,
                                                     provisional_outputs)
    IN IF io.raised THEN [io |-> io, result |-> Raised("ExecutionError")]
       ELSE IF outs.error # "ok" THEN [io |-> io, result |-> Raised(outs.error)]
       ELSE [io |-> io,
             result |-> [NoResult EXCEPT !.status = "returned",
                                         !.id = validated_name,
                                         !.outs = outs.outs]]

\* BaseDynamicProvider.delete: [io, result]
BaseDynamicProvider_delete(id, props, executeRaises) ==
    IF ~validate_identifier_ok(id)
    THEN [io |-> NoIO, result |-> Raised("InvalidIdentifier")]
    ELSE
    LET sql == generate_sql_drop_statement(id, props) IN
    IF sql.error # "ok" THEN [io |-> NoIO, result |-> Raised(sql.error)]
    ELSE
    LET io == BaseDynamicProvider_execute_sql(NoIO, sql.sql, executeRaises)
    IN IF io.raised THEN [io |-> io, result |-> Raised("ExecutionError")]
       ELSE [io |-> io, result |-> [NoResult EXCEPT !.status = "returned"]]

-----------------------------------------------------------------------------
(* diff: the same code in both engines *)

ignoreFields == {"name", "resource_name", "__provider"}

\* the fields with only "name" ignored
diff_fields_ignoring_name_only(olds, news) == (DOMAIN olds \cup DOMAIN news) \ {"name"}

\* set(oldFields).union(newFields)
diff_fields(olds, news) == (DOMAIN olds \cup DOMAIN news) \ ignoreFields

\* the orders in which list(a set) may enumerate S
Orderings(S) ==
    {s \in [1..Cardinality(S) -> S] : \A x \in S : \E i \in 1..Cardinality(S) : s[i] = x}

\* Provider.diff without the special case of "name"
Provider_diff_no_name_rule(olds, news, fields) ==
    LET changed_fields == SelectSeq(fields, LAMBDA f : Get(olds, f) # Get(news, f))
    IN [NoResult EXCEPT !.status = "returned",
                        !.changes = Len(changed_fields) > 0,
                        !.replaces = changed_fields,
                        !.delete_before_replace = TRUE]

\* Provider.diff, with fields the list made of the set of field names
Provider_diff(olds, news, fields) ==
    LET changed_fields ==
            SelectSeq(fields, LAMBDA f : Get(olds, f) # Get(news, f))
            \o (IF Get(news, "name") # None /\ Get(olds, "name") # Get(news, "name")
                THEN <<"name">> ELSE <<>>)
    IN [NoResult EXCEPT !.status = "returned",
                        !.changes = Len(changed_fields) > 0,
                        !.replaces = changed_fields,
                        !.delete_before_replace = TRUE]

\* BaseDynamicProvider.diff
BaseDynamicProvider_diff(olds, news, fields) ==
    LET changed_fields ==
            SelectSeq(fields, LAMBDA f : Get(olds, f) # Get(news, f))
            \o (IF Get(news, "name") # None /\ Get(olds, "name") # Get(news, "name")
                THEN <<"name">> ELSE <<>>)
    IN [NoResult EXCEPT !.status = "returned",
                        !.changes = Len(changed_fields) > 0,
                        !.replaces = changed_fields,
                        !.delete_before_replace = TRUE]

-----------------------------------------------------------------------------
(* FileFormatProvider.delete, as its tests describe it *)

\* the statements with the DROP issued before the context is set
FileFormatProvider_delete_statements_drop_first(id, props) ==
    << "DROP FILE FORMAT " \o Format(id) >>
    \o << "USE DATABASE " \o Format(props["database"]) >>
    \o (IF Get(props, "schema") # None
        THEN << "USE SCHEMA " \o Format(props["schema"]) >> ELSE <<>>)

\* the statements of one delete, in order
FileFormatProvider_delete_statements(id, props) ==
    << "USE DATABASE " \o Format(props["database"]) >>
    \o (IF Get(props, "schema") # None
        THEN << "USE SCHEMA " \o Format(props["schema"]) >> ELSE <<>>)
    \o << "DROP FILE FORMAT " \o Format(id) >>

\* FileFormatProvider.delete: [io, result].  raiseAt is the index of the
\* execute call that raises (0: none does)
FileFormatProvider_delete(id, props, raiseAt) ==
    IF ~validate_identifier_ok(id) \/ ~validate_identifier_ok(props["database"])
       \/ ~validate_identifier_ok(Get(props, "schema"))
    THEN [io |-> NoIO, result |-> Raised("InvalidIdentifier")]
    ELSE
    LET statements == FileFormatProvider_delete_statements(id, props)
        raises == raiseAt \in 1..Len(statements)
        done == IF raises THEN SubSeq(statements, 1, raiseAt) ELSE statements
    IN [io |-> [getCalls |-> 1,
                executed |-> [i \in 1..Len(done) |-> ExecuteCall(done[i], <<>>, FALSE)],
                connections |-> 0, cursors |-> 0, raised |-> raises],
        result |-> IF raises THEN Raised("ExecutionError")
                   ELSE [NoResult EXCEPT !.status = "returned"]]

-----------------------------------------------------------------------------
(* The values the host passes *)

ab == Str(<<"a", "b">>)
a_dash_b == Str(<<"a", "-", "b">>)
b_space_bang == Str(<<"b", " ", "!">>)
numeric == Str(<<"1", "2">>)
empty == Str(<<>>)
r == Str(<<"r">>)
db == Str(<<"d", "b">>)
d_dash_b == Str(<<"d", "-", "b">>)
sc == Str(<<"s", "c">>)
pd == Str(<<"p", "d">>)
ps == Str(<<"p", "s">>)
CSV == Str(<<"C", "S", "V">>)
GZIP == Str(<<"G", "Z", "I", "P">>)
hi == Str(<<"h", "i">>)

Ids == {ab, a_dash_b, b_space_bang, numeric, empty}

\* a dict over the given keys, built from a function that may hold Absent
ProviderCreateInputs ==
    { Dict([k \in {"name", "resource_name", "type", "comment", "compression"} |->
              CASE k = "name" -> n [] k = "resource_name" -> rn [] k = "type" -> t
                [] k = "comment" -> c [] OTHER -> z]) :
        n \in {Absent, None, ab, a_dash_b}, rn \in {Absent, None, r},
        t \in {Absent, None, CSV}, c \in {Absent, None, hi}, z \in {Absent, GZIP} }

QualifierProps ==
    { Dict([k \in {"database", "schema"} |-> IF k = "database" THEN d ELSE s]) :
        d \in {Absent, None, empty, db, d_dash_b}, s \in {Absent, None, sc} }

BaseDynamicProviderCreateInputs ==
    { Merge(q, Dict([k \in {"name", "resource_name"} |-> IF k = "name" THEN n ELSE rn])) :
        q \in QualifierProps, n \in {Absent, None, ab, a_dash_b}, rn \in {Absent, r} }

FileFormatProps ==
    { Dict([k \in {"database", "schema"} |-> IF k = "database" THEN d ELSE s]) :
        d \in {db, d_dash_b}, s \in {Absent, None, sc} }

ProviderParams ==
    {NoParams} \cup { Params(d, s) : d \in {None, empty, pd}, s \in {None, empty, ps} }

DiffDicts ==
    { Dict([k \in {"name", "resource_name", "__provider", "type", "comment"} |->
              CASE k = "name" -> n [] k = "resource_name" -> rn [] k = "__provider" -> p
                [] k = "type" -> t [] OTHER -> c]) :
        n \in {Absent, None, ab, r}, rn \in {Absent, r, hi}, p \in {Absent, pd},
        t \in {Absent, None, CSV, GZIP}, c \in {Absent, hi} }

-----------------------------------------------------------------------------
(* The engine: the host calls create and delete, one call at a time *)

Init ==
    /\ provider_params \in {NoParams, Params(pd, ps)}
    /\ op = "init"
    /\ args = NoArgs
    /\ result = NoResult
    /\ executed = <<>>
    /\ getCalls = 0
    /\ openConnections = 0
    /\ openCursors = 0

\* the handler `name` ran on `a` with outcome outcome = [io, result]
Handled(name, a, outcome) ==
    \E o \in {outcome} :
    /\ op' = name
    /\ args' = a
    /\ result' = o.result
    /\ executed' = o.io.executed
    /\ getCalls' = o.io.getCalls
    /\ openConnections' = openConnections + o.io.connections
    /\ openCursors' = openCursors + o.io.cursors
    /\ UNCHANGED provider_params

ProviderCreate ==
    /\ openConnections < MaxOpen
    /\ \E inputs \in ProviderCreateInputs, executeRaises \in BOOLEAN :
        \E randomId \in RandomIdsFor(inputs) :
        Handled("Provider.create", [NoArgs EXCEPT !.inputs = inputs],
                Provider_create(inputs, randomId, executeRaises))

ProviderDelete ==
    /\ openConnections < MaxOpen
    /\ \E id \in Ids, props \in {EmptyDict, Dict([k \in {"database"} |-> db])},
          executeRaises \in BOOLEAN :
        Handled("Provider.delete", [NoArgs EXCEPT !.id = id, !.inputs = props],
                Provider_delete(id, props, executeRaises))

BaseDynamicProviderCreate ==
    /\ openConnections < MaxOpen
    /\ \E inputs \in BaseDynamicProviderCreateInputs, executeRaises \in BOOLEAN :
        \E randomId \in RandomIdsFor(inputs) :
        Handled("BaseDynamicProvider.create", [NoArgs EXCEPT !.inputs = inputs],
                BaseDynamicProvider_create(inputs, randomId, executeRaises))

BaseDynamicProviderDelete ==
    /\ openConnections < MaxOpen
    /\ \E id \in Ids, props \in QualifierProps, executeRaises \in BOOLEAN :
        Handled("BaseDynamicProvider.delete", [NoArgs EXCEPT !.id = id, !.inputs = props],
                BaseDynamicProvider_delete(id, props, executeRaises))

FileFormatProviderDelete ==
    /\ openConnections < MaxOpen
    /\ \E id \in Ids, props \in FileFormatProps, raiseAt \in 0..3 :
        Handled("FileFormatProvider.delete", [NoArgs EXCEPT !.id = id, !.inputs = props],
                FileFormatProvider_delete(id, props, raiseAt))

Next ==
    \/ ProviderCreate
    \/ ProviderDelete
    \/ BaseDynamicProviderCreate
    \/ BaseDynamicProviderDelete
    \/ FileFormatProviderDelete

Spec == Init /\ [][Next]_vars

-----------------------------------------------------------------------------
(* diff, applied to every pair of dicts *)

InitDiff ==
    /\ provider_params = NoParams
    /\ op = "init"
    /\ args \in { [NoArgs EXCEPT !.id = ab, !.olds = o, !.inputs = n] :
                    o \in DiffDicts, n \in DiffDicts }
    /\ result = NoResult
    /\ executed = <<>>
    /\ getCalls = 0
    /\ openConnections = 0
    /\ openCursors = 0

ProviderDiff ==
    /\ op = "init"
    /\ \E fields \in Orderings(diff_fields(args.olds, args.inputs)) :
          result' = Provider_diff(args.olds, args.inputs, fields)
    /\ op' = "Provider.diff"
    /\ UNCHANGED <<provider_params, args, executed, getCalls, openConnections, openCursors>>

BaseDynamicProviderDiff ==
    /\ op = "init"
    /\ \E fields \in Orderings(diff_fields(args.olds, args.inputs)) :
          result' = BaseDynamicProvider_diff(args.olds, args.inputs, fields)
    /\ op' = "BaseDynamicProvider.diff"
    /\ UNCHANGED <<provider_params, args, executed, getCalls, openConnections, openCursors>>

NextDiff == ProviderDiff \/ BaseDynamicProviderDiff

SpecDiff == InitDiff /\ [][NextDiff]_vars

-----------------------------------------------------------------------------
(* The naming resolver, applied to every inputs and provider defaults *)

InitNaming ==
    /\ provider_params \in ProviderParams
    /\ op = "init"
    /\ args \in { [NoArgs EXCEPT !.id = n, !.inputs = q] :
                    n \in {ab, a_dash_b}, q \in QualifierProps }
    /\ result = NoResult
    /\ executed = <<>>
    /\ getCalls = 0
    /\ openConnections = 0
    /\ openCursors = 0

GetDatabaseAndSchema ==
    /\ op = "init"
    /\ op' = "_get_database_and_schema"
    /\ LET ds == BaseDynamicProvider_get_database_and_schema(args.inputs) IN
       result' = [NoResult EXCEPT !.status = "returned",
                                  !.database = ds.database, !.schema = ds.schema]
    /\ UNCHANGED <<provider_params, args, executed, getCalls, openConnections, openCursors>>

GetFullObjectName ==
    /\ op = "init"
    /\ op' = "_get_full_object_name"
    /\ LET full == BaseDynamicProvider_get_full_object_name(args.inputs, args.id) IN
       result' = IF full.error # "ok" THEN Raised(full.error)
                 ELSE [NoResult EXCEPT !.status = "returned", !.value = full.name]
    /\ UNCHANGED <<provider_params, args, executed, getCalls, openConnections, openCursors>>

NextNaming == GetDatabaseAndSchema \/ GetFullObjectName

SpecNaming == InitNaming /\ [][NextNaming]_vars

-----------------------------------------------------------------------------
(* Claims about create and delete, checked under Spec *)

\* C1: after any sequence of create and delete calls no Connection and no
\* cursor the engine obtained is left open, also when cursor.execute raised.
C1_NothingLeftOpen == openConnections = 0 /\ openCursors = 0

\* C2: a create whose inputs hold neither a name nor a resource_name (null or
\* absent) fails and issues no SQL: no get() call, no execute call.
C2_NoNameNoSql ==
    (/\ op \in {"Provider.create", "BaseDynamicProvider.create"}
     /\ Get(args.inputs, "name") = None
     /\ Get(args.inputs, "resource_name") = None)
    => (result.status = "raised" /\ getCalls = 0 /\ executed = <<>>)

\* a Provider.create with every required attribute given and no name at all
C2_Witness ==
    /\ op = "Provider.create"
    /\ Get(args.inputs, "type") = CSV
    /\ "name" \notin DOMAIN args.inputs
    /\ "resource_name" \in DOMAIN args.inputs /\ args.inputs["resource_name"] = None
    /\ result.status = "raised" /\ result.error = "NameMissing"
    /\ getCalls = 0

\* C3: a Provider.create in which a required attribute is null or absent
\* fails before any Connection is acquired, whatever the other inputs are.
C3_RequiredMissingNoConnection ==
    (/\ op = "Provider.create"
     /\ \E i \in 1..Len(attributes) :
           attributes[i].required /\ Get(args.inputs, attributes[i].name) = None)
    => (result.status = "raised" /\ getCalls = 0)

\* a Provider.create with a valid name and the required attribute null
C3_Witness ==
    /\ op = "Provider.create"
    /\ Get(args.inputs, "name") = ab
    /\ "type" \in DOMAIN args.inputs /\ args.inputs["type"] = None
    /\ Get(args.inputs, "comment") = hi
    /\ result.status = "raised" /\ result.error = "RequiredAttributeMissing"
    /\ getCalls = 0

\* C4: a delete whose id is not a valid identifier fails, for any props, and
\* issues no SQL: no Connection is acquired and execute is never called.
C4_InvalidIdNoSql ==
    (/\ op \in {"Provider.delete", "BaseDynamicProvider.delete",
                "FileFormatProvider.delete"}
     /\ ~IsIdentifier(args.id.v))
    => (result.status = "raised" /\ getCalls = 0 /\ executed = <<>>)

\* a Provider.delete of "a-b" with a database in props
C4_Witness ==
    /\ op = "Provider.delete"
    /\ args.id = a_dash_b
    /\ Get(args.inputs, "database") = db
    /\ result.status = "raised" /\ result.error = "InvalidIdentifier"
    /\ executed = <<>>

\* the statements C9 expects of a FILE FORMAT delete
C9_Expected(id, props) ==
    << "USE DATABASE " \o Flat(props["database"].v) >>
    \o (IF Get(props, "schema") # None
        THEN << "USE SCHEMA " \o Flat(props["schema"].v) >> ELSE <<>>)
    \o << "DROP FILE FORMAT " \o Flat(id.v) >>

RECURSIVE C10_Fragments(_, _)
\* one fragment per attribute from the i-th on whose input is non-null
C10_Fragments(inputs, i) ==
    IF i > Len(attributes) THEN <<>>
    ELSE (IF Get(inputs, attributes[i].name) # None
          THEN << generate_sql(attributes[i], inputs[attributes[i].name]) >>
          ELSE <<>>)
         \o C10_Fragments(inputs, i + 1)

RECURSIVE C10_Bindings(_, _)
\* the bindings of the same attributes, concatenated
C10_Bindings(inputs, i) ==
    IF i > Len(attributes) THEN <<>>
    ELSE (IF Get(inputs, attributes[i].name) # None
             /\ generate_bindings(attributes[i], inputs[attributes[i].name]).present
          THEN generate_bindings(attributes[i], inputs[attributes[i].name]).values
          ELSE <<>>)
         \o C10_Bindings(inputs, i + 1)

\* C10: a successful Provider.create executes exactly one statement: the
\* line CREATE <sql_name> <name> and, newline-joined, one fragment per
\* attribute with a non-null input, in declaration order; its bindings are
\* those attributes' bindings concatenated, and no bindings argument is
\* passed when there are none.
C10_OneCreateStatement ==
    (op = "Provider.create" /\ result.status = "returned")
    => /\ Len(executed) = 1
       /\ executed[1].sql =
            Join(<< "CREATE FILE FORMAT " \o Flat(result.id.v) >>
                 \o C10_Fragments(args.inputs, 1), "\n")
       /\ executed[1].bindings = C10_Bindings(args.inputs, 1)
       /\ executed[1].withBindings = (C10_Bindings(args.inputs, 1) # <<>>)

\* type and comment set, compression unset: two fragments and one binding
C10_Witness ==
    /\ op = "Provider.create"
    /\ result.status = "returned"
    /\ args.inputs = Dict([k \in {"name", "type", "comment"} |->
                             CASE k = "name" -> ab [] k = "type" -> CSV [] OTHER -> hi])
    /\ executed = << ExecuteCall("CREATE FILE FORMAT ab\nTYPE = CSV\nCOMMENT = %s",
                                 <<hi>>, TRUE) >>

\* only the required literal attribute set: no bindings argument is passed
C10_NoBindingsReached ==
    /\ op = "Provider.create"
    /\ result.status = "returned"
    /\ executed = << ExecuteCall("CREATE FILE FORMAT ab\nTYPE = CSV", <<>>, FALSE) >>

-----------------------------------------------------------------------------
(* Claims about diff, checked under SpecDiff *)

\* the number of times x occurs in the sequence q
Occurrences(q, x) == Cardinality({i \in 1..Len(q) : q[i] = x})

\* the fields that are no meta-field and whose old and new values differ
C5_Differing(olds, news) ==
    {f \in (DOMAIN olds \cup DOMAIN news) \ {"name", "resource_name", "__provider"} :
        Get(olds, f) # Get(news, f)}

\* C5: diff returns deleteBeforeReplace = true and changed = (replacementFields
\* is non-empty); apart from "name", replacementFields holds exactly the
\* fields, other than name, resource_name and __provider, present in olds or
\* news whose values differ; a difference in resource_name or __provider
\* alone gives changed = false.
C5_DiffResult ==
    op \in {"Provider.diff", "BaseDynamicProvider.diff"}
    => LET olds == args.olds
           news == args.inputs
           replaces == result.replaces
       IN /\ result.status = "returned"
          /\ result.delete_before_replace = TRUE
          /\ result.changes = (replaces # <<>>)
          /\ {replaces[i] : i \in 1..Len(replaces)} \ {"name"} = C5_Differing(olds, news)
          /\ \A f \in C5_Differing(olds, news) : Occurrences(replaces, f) = 1
          /\ (\A f \in (DOMAIN olds \cup DOMAIN news) \ {"resource_name", "__provider"} :
                 Get(olds, f) = Get(news, f))
             => result.changes = FALSE

\* olds and news differ in resource_name and __provider only
C5_Witness ==
    /\ op = "Provider.diff"
    /\ Get(args.olds, "resource_name") = r /\ Get(args.inputs, "resource_name") = hi
    /\ Get(args.olds, "__provider") = pd /\ "__provider" \notin DOMAIN args.inputs
    /\ Get(args.olds, "type") = CSV /\ Get(args.inputs, "type") = CSV
    /\ result.changes = FALSE
    /\ result.replaces = <<>>

\* C6: diff puts "name" in replacementFields, once, and sets changed = true
\* when news["name"] is non-null and differs from olds["name"], whatever the
\* other fields; otherwise "name" is not in replacementFields.
C6_NameRule ==
    op \in {"Provider.diff", "BaseDynamicProvider.diff"}
    => IF Get(args.inputs, "name") # None /\ Get(args.inputs, "name") # Get(args.olds, "name")
       THEN Occurrences(result.replaces, "name") = 1 /\ result.changes = TRUE
       ELSE Occurrences(result.replaces, "name") = 0

\* only the name differs
C6_Witness ==
    /\ op = "Provider.diff"
    /\ Get(args.olds, "name") = ab /\ Get(args.inputs, "name") = r
    /\ C5_Differing(args.olds, args.inputs) = {}
    /\ result.replaces = <<"name">>
    /\ result.changes = TRUE

-----------------------------------------------------------------------------
(* Claims about the naming resolver, checked under SpecNaming *)

\* the provider-level default of a qualifier: None without provider_params
C7_Default(q) == IF provider_params.present THEN provider_params[q] ELSE None

\* C7 as stated, "present" being "not null": without an input-level database
\* and schema the result is (null, null); otherwise each of them is the
\* input-level value when there is one and the provider-level default when not.
C7_PresentIsNotNull ==
    op = "_get_database_and_schema"
    => LET d == Get(args.inputs, "database")
           s == Get(args.inputs, "schema")
       IN IF d = None /\ s = None
          THEN result.database = None /\ result.schema = None
          ELSE /\ result.database = (IF d # None THEN d ELSE C7_Default("database"))
               /\ result.schema = (IF s # None THEN s ELSE C7_Default("schema"))

\* a value that is a non-empty string
C7_NonEmpty(x) == x.t = "str" /\ Len(x.v) > 0

\* C7 amended: a null or empty value counts as absent.  When neither
\* inputs.database nor inputs.schema is non-empty the result is (null, null)
\* and the provider defaults are ignored; otherwise each of database and
\* schema is the input-level value when that is non-empty, else the
\* provider-level default when that is non-empty, else null.
C7_PresentIsNonEmpty ==
    op = "_get_database_and_schema"
    => LET d == Get(args.inputs, "database")
           s == Get(args.inputs, "schema")
           fallback(q) == IF C7_NonEmpty(C7_Default(q)) THEN C7_Default(q) ELSE None
       IN IF ~C7_NonEmpty(d) /\ ~C7_NonEmpty(s)
          THEN result.database = None /\ result.schema = None
          ELSE /\ result.database = (IF C7_NonEmpty(d) THEN d ELSE fallback("database"))
               /\ result.schema = (IF C7_NonEmpty(s) THEN s ELSE fallback("schema"))

\* the input-level database wins over the default, the default fills the schema
C7_Witness ==
    /\ op = "_get_database_and_schema"
    /\ provider_params = Params(pd, ps)
    /\ Get(args.inputs, "database") = db
    /\ "schema" \notin DOMAIN args.inputs
    /\ result.database = db
    /\ result.schema = ps

\* C8: for a valid name, the resolved database and schema are validated only
\* when non-null, and the full name is database.schema.name when both are
\* resolved, database..name when only the database is (this does not fail on
\* the null schema), and the bare name when neither is.
C8_QualifiedName ==
    (op = "_get_full_object_name" /\ IsIdentifier(args.id.v))
    => LET ds == BaseDynamicProvider_get_database_and_schema(args.inputs)
           d == ds.database
           s == ds.schema
       IN IF (d # None /\ ~IsIdentifier(d.v)) \/ (s # None /\ ~IsIdentifier(s.v))
          THEN result.status = "raised"
          ELSE /\ result.status = "returned"
               /\ (d # None /\ s # None)
                  => result.value = Str(d.v \o <<".">> \o s.v \o <<".">> \o args.id.v)
               /\ (d # None /\ s = None)
                  => result.value = Str(d.v \o <<".", ".">> \o args.id.v)
               /\ (d = None /\ s = None) => result.value = args.id

\* a database and no schema at either level: the double-dot name
C8_Witness ==
    /\ op = "_get_full_object_name"
    /\ args.id = ab
    /\ Get(args.inputs, "database") = db
    /\ Get(args.inputs, "schema") = None
    /\ result.status = "returned"
    /\ Flat(result.value.v) = "db..ab"

-----------------------------------------------------------------------------
(* Create, then delete with the id and outputs create returned *)

InitRoundTrip ==
    /\ provider_params \in ProviderParams
    /\ op = "init"
    /\ args \in { [NoArgs EXCEPT !.inputs = i] :
                    i \in BaseDynamicProviderCreateInputs \cup ProviderCreateInputs }
    /\ result = NoResult
    /\ executed = <<>>
    /\ getCalls = 0
    /\ openConnections = 0
    /\ openCursors = 0

RoundTripProviderCreate ==
    /\ op = "init"
    /\ \E executeRaises \in BOOLEAN, randomId \in RandomIdsFor(args.inputs) :
          Handled("Provider.create", args,
                  Provider_create(args.inputs, randomId, executeRaises))

RoundTripProviderDelete ==
    /\ op = "Provider.create"
    /\ result.status = "returned"
    /\ \E executeRaises \in BOOLEAN :
          Handled("Provider.delete",
                  [NoArgs EXCEPT !.id = result.id, !.inputs = result.outs],
                  Provider_delete(result.id, result.outs, executeRaises))

RoundTripBaseDynamicProviderCreate ==
    /\ op = "init"
    /\ \E executeRaises \in BOOLEAN, randomId \in RandomIdsFor(args.inputs) :
          Handled("BaseDynamicProvider.create", args,
                  BaseDynamicProvider_create(args.inputs, randomId, executeRaises))

RoundTripBaseDynamicProviderDelete ==
    /\ op = "BaseDynamicProvider.create"
    /\ result.status = "returned"
    /\ \E executeRaises \in BOOLEAN :
          Handled("BaseDynamicProvider.delete",
                  [NoArgs EXCEPT !.id = result.id, !.inputs = result.outs],
                  BaseDynamicProvider_delete(result.id, result.outs, executeRaises))

NextRoundTrip ==
    \/ RoundTripProviderCreate
    \/ RoundTripProviderDelete
    \/ RoundTripBaseDynamicProviderCreate
    \/ RoundTripBaseDynamicProviderDelete

SpecRoundTrip == InitRoundTrip /\ [][NextRoundTrip]_vars

\* the texts an object can be named by: a name, bare or qualified by a
\* database, or by a database and a schema
C11_Names ==
    LET names == {ab.v} \cup { r.v \o <<"_">> \o i : i \in RandomIds }
        databases == {db.v, pd.v}
        schemas == {sc.v, ps.v}
    IN { Flat(n) : n \in names }
       \cup { Flat(d \o <<".", ".">> \o n) : d \in databases, n \in names }
       \cup { Flat(d \o <<".">> \o s \o <<".">> \o n) :
                d \in databases, s \in schemas, n \in names }

\* C11: with the provider-level defaults unchanged, delete(id, outputs) after
\* a create that returned (id, outputs) drops the object by the very name,
\* with the same database and schema qualification, that the CREATE named.
C11_RoundTrip ==
    [][ /\ (op = "BaseDynamicProvider.create" /\ op' = "BaseDynamicProvider.delete")
           => \E x \in C11_Names :
                 /\ executed = << ExecuteCall("CREATE STAGE " \o x, <<>>, FALSE) >>
                 /\ executed' = << ExecuteCall("DROP STAGE " \o x, <<>>, FALSE) >>
        /\ (op = "Provider.create" /\ op' = "Provider.delete")
           => \E x \in C11_Names :
                 /\ Len(executed) = 1
                 /\ executed[1].sql =
                      Join(<< "CREATE FILE FORMAT " \o x >>
                           \o C10_Fragments(args.inputs, 1), "\n")
                 /\ executed' = << ExecuteCall("DROP FILE FORMAT " \o x, <<>>, FALSE) >>
      ]_vars

\* a delete after a create whose schema came from the provider default and
\* whose database was given in the inputs: the DROP is qualified by both
C11_Witness ==
    /\ op = "BaseDynamicProvider.delete"
    /\ provider_params = Params(pd, ps)
    /\ args.id = ab
    /\ Get(args.inputs, "database") = db
    /\ Get(args.inputs, "schema") = ps
    /\ Get(args.inputs, "full_name") = Str(<<"d", "b", ".", "p", "s", ".", "a", "b">>)
    /\ executed = << ExecuteCall("DROP STAGE db.ps.ab", <<>>, FALSE) >>

\* a delete after a create whose inputs gave the schema as null and whose
\* database came from the provider default
C11_NullQualifierReached ==
    /\ op = "BaseDynamicProvider.delete"
    /\ provider_params = Params(pd, empty)
    /\ "database" \in DOMAIN args.inputs /\ args.inputs["database"] = db
    /\ "schema" \in DOMAIN args.inputs /\ args.inputs["schema"] = None
    /\ executed = << ExecuteCall("DROP STAGE db..ab", <<>>, FALSE) >>

=============================================================================
